---- MODULE Spec2Model ----
(***************************************************************************)
(* Model of redash/query_runner/athena.py (class Athena).                  *)
(*                                                                         *)
(* Spec       : one call of configuration_schema() or of run_query(), the  *)
(*              latter followed statement by statement through             *)
(*              get_query_result_from_file and remove_file.                *)
(* SchemaSpec : one call of get_schema() with the introspection query.     *)
(*                                                                         *)
(* Python values are modelled as follows.  None is the string "<None>"     *)
(* where the value is otherwise a string, an attribute the cursor does not *)
(* have is "<absent>".  Exceptions and error values are records            *)
(* [type, message]; a message is the sequence of its words, so that the    *)
(* substring tests of the code are computed and not assumed.  e.message is *)
(* read as the message the exception was built with.                       *)
(*                                                                         *)
(* Library calls are modelled by their documented behaviour: os.remove     *)
(* (TypeError for None, OSError for a missing file), open, csv.DictReader  *)
(* (restkey / restval, blank lines skipped, later duplicates of a header   *)
(* name overwrite earlier ones), parse_output_location.  Interrupts are    *)
(* delivered while a statement of the try block or cursor.cancel() runs.   *)
(***************************************************************************)
EXTENDS Integers, Sequences, FiniteSets, TLC

\* ------------------------------------------------------------------ bounds
MaxCols == 2
MaxRows == 1
MaxSchemaRows == 3

\* ------------------------------------------------------------ value domains
NoneS == "<None>"
Absent == "<absent>"

QueryIds == {Absent, NoneS, "", "q1"}
RandBits == {0, 1}
OutputLocations == {NoneS, "", "s3://bucket/key.csv", "not-an-s3-url"}
ColNames == {"a", "b"}
CellValues == {"1"}
ScannedBytes == {Absent, "10"}

SeqsUpTo(S, n) == UNION {[1..k -> S] : k \in 0..n}

NoError == [type |-> "None", message |-> <<>>]
StrError(words) == [type |-> "str", message |-> words]
Exc(type, words) == [type |-> type, message |-> words]

KeyboardInterrupt == Exc("KeyboardInterrupt", <<>>)
InterruptException == Exc("InterruptException", <<"interrupted">>)
Interrupts == {KeyboardInterrupt, InterruptException}
NotFound == Exc("ClientError", <<"An", "error", "occurred", "(", "404", ")", "when", "calling", "the", "HeadObject", "operation">>)
StorageFaults ==
    { NotFound,
      Exc("ClientError", <<"An", "error", "occurred", "(", "403", ")", "when", "calling", "the", "HeadObject", "operation">>),
      Exc("ClientError", <<"An", "error", "occurred", "(", "404", ")", "when", "calling", "the", "GetObject", "operation">>) }
AssumeRoleFault == Exc("ClientError", <<"AccessDenied", "when", "calling", "the", "AssumeRole", "operation">>)
OtherFault == Exc("Exception", <<"boom">>)
DriverFault == Exc("OperationalError", <<"statement", "rejected">>)

\* `word in message`
Contains(message, word) == \E i \in DOMAIN message : message[i] = word

\* Python truthiness of cursor.query_id / of the output location
Truthy(s) == s \notin {NoneS, ""}

\* ------------------------------------------------------------------- state
VARIABLES
    ASSUME_ROLE, OPTIONAL_CREDENTIALS, SHOW_EXTRA_SETTINGS,  \* module toggles
    op,                  \* "none", "configuration_schema", "run_query", "get_schema"
    pc,                  \* position inside the running call
    schema,              \* value returned by configuration_schema()
    query_id,            \* cursor.query_id
    athena_query_id, athena_output_location, athena_query_results_file,
    error, json_data, qbytes, rows, columns,   \* locals of get_query_result_from_file
    export_file,         \* lines of the downloaded export file
    description,         \* cursor.description (column names)
    exc,                 \* exception being handled by an except clause
    exc_at,              \* history: the statement that raised it
    pending,             \* what the finally clause resumes: "none", "return", or an exception
    fs,                  \* names of the files present on local storage
    opened_for_write,    \* history: names get_query_result_from_file opened with 'wb'
    cancels,             \* history: number of cursor.cancel() calls
    result,              \* how the call ended
    gs_rows, gs_i, gs_schema, gs_order, gs_result   \* get_schema

toggles == <<ASSUME_ROLE, OPTIONAL_CREDENTIALS, SHOW_EXTRA_SETTINGS>>
locals == <<athena_query_id, athena_output_location, athena_query_results_file,
            error, json_data, qbytes, rows, columns>>
gs == <<gs_rows, gs_i, gs_schema, gs_order, gs_result>>
vars == <<toggles, op, pc, schema, query_id, locals, export_file, description,
          exc, exc_at, pending, fs, opened_for_write, cancels, result, gs>>


\* -------------------------------------------------------- pure functions
\* list.insert(i, x), i counted from 0
Insert(s, i, x) == SubSeq(s, 1, i) \o <<x>> \o SubSeq(s, i + 1, Len(s))

Range(s) == {s[i] : i \in DOMAIN s}

\* configuration_schema with the static keys made mandatory whenever the
\* credentials are not optional, role assumption or not
ConfigurationSchema_RequiredUnderRole(assume_role, optional_credentials, show_extra_settings) ==
    LET base == {"region", "s3_staging_dir", "schema", "glue", "work_group", "cost_per_tb"}
        extra == IF show_extra_settings THEN {"encryption_option", "kms_key"} ELSE {}
        order == <<"s3_staging_dir", "schema", "work_group", "cost_per_tb">>
    IN  [properties |-> base \cup extra \cup
                          (IF assume_role THEN {"iam_role", "external_id"}
                           ELSE {"aws_access_key", "aws_secret_key"}),
         required |-> IF ~optional_credentials
                      THEN <<"region", "s3_staging_dir", "aws_access_key", "aws_secret_key">>
                      ELSE <<"region", "s3_staging_dir">>,
         extra_options |-> IF show_extra_settings
                           THEN <<"glue", "cost_per_tb", "encryption_option", "kms_key">>
                           ELSE <<"glue", "cost_per_tb">>,
         order |-> IF assume_role THEN <<"region", "iam_role", "external_id">> \o order
                   ELSE <<"region", "aws_access_key", "aws_secret_key">> \o order,
         secret |-> IF assume_role THEN <<>> ELSE <<"aws_secret_key">>]

\* Athena.configuration_schema; properties is the set of its keys
ConfigurationSchema(assume_role, optional_credentials, show_extra_settings) ==
    LET base_properties == {"region", "aws_access_key", "aws_secret_key", "s3_staging_dir",
                            "schema", "glue", "work_group", "cost_per_tb"}
        base_order == <<"region", "s3_staging_dir", "schema", "work_group", "cost_per_tb">>
        properties1 == IF show_extra_settings
                       THEN base_properties \cup {"encryption_option", "kms_key"}
                       ELSE base_properties
        extra_options == IF show_extra_settings
                         THEN <<"glue", "cost_per_tb", "encryption_option", "kms_key">>
                         ELSE <<"glue", "cost_per_tb">>
        properties2 == IF assume_role
                       THEN (properties1 \ {"aws_access_key", "aws_secret_key"})
                                \cup {"iam_role", "external_id"}
                       ELSE properties1
        secret == IF assume_role THEN <<>> ELSE <<"aws_secret_key">>
        order == IF assume_role
                 THEN Insert(Insert(base_order, 1, "iam_role"), 2, "external_id")
                 ELSE Insert(Insert(base_order, 1, "aws_access_key"), 2, "aws_secret_key")
        required == IF ~optional_credentials /\ ~assume_role
                    THEN <<"region", "s3_staging_dir", "aws_access_key", "aws_secret_key">>
                    ELSE <<"region", "s3_staging_dir">>
    IN  [properties |-> properties2, required |-> required,
         extra_options |-> extra_options, order |-> order, secret |-> secret]

NoSchema == [properties |-> {}, required |-> <<>>, extra_options |-> <<>>,
             order |-> <<>>, secret |-> <<>>]

\* keys of dict(zip(...)) in insertion order: first occurrences
RECURSIVE Dedup(_)
Dedup(s) ==
    IF s = <<>> THEN <<>>
    ELSE LET front == Dedup(SubSeq(s, 1, Len(s) - 1))
         IN  IF s[Len(s)] \in Range(front) THEN front ELSE Append(front, s[Len(s)])

\* One row of csv.DictReader: d = dict(zip(fieldnames, row)); a longer row puts
\* the remainder under the key None (restkey), a shorter row gives the missing
\* fieldnames the value None (restval).  A dict is [keys, val]: keys in
\* insertion order, val the value of each key (the last assignment wins).
DictRow(fieldnames, row) ==
    LET lf == Len(fieldnames)
        lr == Len(row)
        named == Dedup(fieldnames)
        keys == IF lf < lr THEN Append(named, NoneS) ELSE named
        Last(k) == CHOOSE i \in 1..lf : fieldnames[i] = k /\ \A j \in (i + 1)..lf : fieldnames[j] # k
    IN  [keys |-> keys,
         val |-> [k \in Range(keys) |->
                    IF k = NoneS THEN SubSeq(row, lf + 1, lr)
                    ELSE IF Last(k) > lr THEN <<NoneS>>
                    ELSE <<row[Last(k)]>>]]

\* list(csv.DictReader(f)): the first line is the header, blank lines are skipped
RECURSIVE DictReaderFrom(_, _, _)
DictReaderFrom(fieldnames, lines, i) ==
    IF i > Len(lines) THEN <<>>
    ELSE IF lines[i] = <<>> THEN DictReaderFrom(fieldnames, lines, i + 1)
    ELSE <<DictRow(fieldnames, lines[i])>> \o DictReaderFrom(fieldnames, lines, i + 1)

DictReader(lines) ==
    IF lines = <<>> THEN <<>> ELSE DictReaderFrom(lines[1], lines, 2)

\* BaseQueryRunner.fetch_columns: one descriptor per column description
fetch_columns(column_names) == [i \in DOMAIN column_names |-> [name |-> column_names[i]]]

\* pyathena.util.parse_output_location: a non-S3 location is rejected
ParsesAsS3(location) == location = "s3://bucket/key.csv"

EmptyDict == [keys |-> {}, columns |-> <<>>, rows |-> <<>>,
              data_scanned |-> NoneS, athena_query_id |-> NoneS]
NoData == [kind |-> "None", value |-> EmptyDict]
json_dumps(d) == [kind |-> "json", value |-> d]
json_loads(j) == j.value

\* os.remove: TypeError for None, OSError when the file does not exist
OsRemoveRaises(name) ==
    IF name = NoneS THEN "TypeError"
    ELSE IF name \notin fs THEN "OSError"
    ELSE "no"

\* Athena.remove_file: only OSError is swallowed
RemoveFileRaises(name) == OsRemoveRaises(name) \notin {"no", "OSError"}
\* remove_file that leaves the file in place
RemoveFileFs_KeepsFile(name) == fs

RemoveFileFs(name) == IF OsRemoveRaises(name) = "no" THEN fs \ {name} ELSE fs

ExportFiles ==
    { <<>> } \cup
    { <<h>> \o d : h \in SeqsUpTo(ColNames, MaxCols) \ {<<>>},
                   d \in SeqsUpTo(SeqsUpTo(CellValues, MaxCols + 1), MaxRows) }
Descriptions == SeqsUpTo(ColNames, MaxCols)

Running == [kind |-> "running", data |-> NoData, error |-> NoError]
Returned(data, err) == [kind |-> "returned", data |-> data, error |-> err]
Raised(e) == [kind |-> "raised", data |-> NoData, error |-> e]

\* ------------------------------------------------------------------- Init
Init ==
    /\ ASSUME_ROLE \in BOOLEAN
    /\ OPTIONAL_CREDENTIALS \in BOOLEAN
    /\ SHOW_EXTRA_SETTINGS \in BOOLEAN
    /\ op = "none"
    /\ pc = "idle"
    /\ schema = NoSchema
    /\ query_id = Absent
    /\ athena_query_id = NoneS
    /\ athena_output_location = NoneS
    /\ athena_query_results_file = NoneS
    /\ error = NoError
    /\ json_data = NoData
    /\ qbytes = NoneS
    /\ rows = <<>>
    /\ columns = <<>>
    /\ export_file = <<>>
    /\ description = <<>>
    /\ exc = NoError
    /\ exc_at = "nowhere"
    /\ pending = [kind |-> "none", exc |-> NoError]
    /\ fs = {}
    /\ opened_for_write = {}
    /\ cancels = 0
    /\ result = Running
    /\ gs_rows = <<>>
    /\ gs_i = 0
    /\ gs_schema = <<>>
    /\ gs_order = <<>>
    /\ gs_result = [kind |-> "running", entries |-> <<>>]


\* ------------------------------------------------- configuration_schema()
configuration_schema ==
    /\ pc = "idle"
    /\ op' = "configuration_schema"
    /\ schema' = ConfigurationSchema(ASSUME_ROLE, OPTIONAL_CREDENTIALS, SHOW_EXTRA_SETTINGS)
    /\ pc' = "done"
    /\ UNCHANGED <<toggles, query_id, locals, export_file, description, exc, exc_at,
                   pending, fs, opened_for_write, cancels, result, gs>>

\* -------------------------------------------------------------- run_query
\* what every step of run_query leaves alone
Frame == UNCHANGED <<toggles, schema, gs>>
NoThrow == UNCHANGED <<exc, exc_at>>

\* an exception leaves run_query
Escape(e) ==
    /\ result' = Raised(e)
    /\ pc' = "done"

\* an exception raised by a statement of the try block of
\* get_query_result_from_file goes to the first matching except clause
Handler(e) ==
    IF e.type \in {"KeyboardInterrupt", "InterruptException"} THEN "except_interrupt"
    ELSE IF e.type = "ClientError" THEN "except_ClientError"
    ELSE "except_Exception"

Throw(e) ==
    /\ exc' = e
    /\ exc_at' = pc
    /\ pc' = Handler(e)

\* control reaches the finally clause
ToFinally(kind, e) ==
    /\ pending' = [kind |-> kind, exc |-> e]
    /\ pc' = "finally"

run_query ==
    /\ pc = "idle"
    /\ op' = "run_query"
    /\ pc' = "connect"
    /\ UNCHANGED <<query_id, locals, export_file, description, exc, exc_at, pending,
                   fs, opened_for_write, cancels, result>>
    /\ Frame

\* pyathena.connect(...).cursor(): outside every try block
Connect ==
    /\ pc = "connect"
    /\ \/ pc' = "execute" /\ UNCHANGED result
       \/ Escape(DriverFault)
    /\ UNCHANGED <<op, query_id, locals, export_file, description, exc, exc_at, pending,
                   fs, opened_for_write, cancels>>
    /\ Frame

\* cursor.execute(query): outside every try block
Execute ==
    /\ pc = "execute"
    /\ \/ \E q \in QueryIds : query_id' = q /\ pc' = "L295" /\ UNCHANGED result
       \/ Escape(DriverFault) /\ UNCHANGED query_id
    /\ UNCHANGED <<op, locals, export_file, description, exc, exc_at, pending,
                   fs, opened_for_write, cancels>>
    /\ Frame

TempName(r) == "temp_" \o ToString(r)

ReadQueryId ==
    /\ pc = "L295"
    /\ \E r \in RandBits :
         athena_query_id' = IF query_id = Absent THEN TempName(r) ELSE query_id
    /\ pc' = "L300"
    /\ UNCHANGED <<op, query_id, athena_output_location, athena_query_results_file,
                   error, json_data, qbytes, rows, columns, export_file, description,
                   exc, exc_at, pending, fs, opened_for_write, cancels, result>>
    /\ Frame

\* The inner try of lines 299-305.  KeyboardInterrupt is not an Exception and
\* passes to the outer clauses (action Interrupt); InterruptException is
\* defined outside this file, so it is followed both ways.
ReadOutputLocation ==
    /\ pc = "L300"
    /\ \/ /\ \E loc \in OutputLocations : athena_output_location' = loc
          /\ pc' = "L307"
          /\ UNCHANGED <<error, pending>>
       \/ /\ \E e \in {OtherFault, InterruptException} : error' = StrError(e.message)
          /\ ToFinally("return", NoError)
          /\ UNCHANGED athena_output_location
    /\ UNCHANGED <<op, query_id, athena_query_id, athena_query_results_file,
                   json_data, qbytes, rows, columns, export_file, description,
                   exc, exc_at, fs, opened_for_write, cancels, result>>
    /\ Frame

CheckOutputLocation ==
    /\ pc = "L307"
    /\ IF ~Truthy(athena_output_location) \/ athena_output_location = ""
       THEN ToFinally("return", NoError)
       ELSE pc' = "L310" /\ UNCHANGED pending
    /\ UNCHANGED <<op, query_id, locals, export_file, description,
                   exc, exc_at, fs, opened_for_write, cancels, result>>
    /\ Frame

ParseOutputLocation ==
    /\ pc = "L310"
    /\ IF ParsesAsS3(athena_output_location)
       THEN pc' = "L311" /\ NoThrow
       ELSE Throw(Exc("DataError", <<"Unknown", "output", "location", "format">>))
    /\ UNCHANGED <<op, query_id, locals, export_file, description,
                   pending, fs, opened_for_write, cancels, result>>
    /\ Frame

\* what _get_iam_credentials / boto3.client can raise
CredentialFaults == IF ASSUME_ROLE THEN {AssumeRoleFault, OtherFault} ELSE {OtherFault}

S3Client ==
    /\ pc = "L311"
    /\ \/ pc' = "L313" /\ NoThrow
       \/ \E e \in CredentialFaults : Throw(e)
    /\ UNCHANGED <<op, query_id, locals, export_file, description,
                   pending, fs, opened_for_write, cancels, result>>
    /\ Frame

\* lines 313-314: open(None) is a TypeError, open('') an IOError
OpenForWrite ==
    /\ pc = "L313"
    /\ athena_query_results_file' = athena_query_id
    /\ IF athena_query_id = NoneS
       THEN Throw(Exc("TypeError", <<"coercing", "to", "Unicode">>))
               /\ UNCHANGED <<fs, opened_for_write>>
       ELSE IF athena_query_id = ""
       THEN Throw(Exc("IOError", <<"No", "such", "file", "or", "directory">>))
               /\ UNCHANGED <<fs, opened_for_write>>
       ELSE /\ fs' = fs \cup {athena_query_id}
            /\ opened_for_write' = opened_for_write \cup {athena_query_id}
            /\ pc' = "L315"
            /\ NoThrow
    /\ UNCHANGED <<op, query_id, athena_query_id, athena_output_location,
                   error, json_data, qbytes, rows, columns, export_file, description,
                   pending, cancels, result>>
    /\ Frame

Download ==
    /\ pc = "L315"
    /\ \/ /\ \E f \in ExportFiles : export_file' = f
          /\ pc' = "L316"
          /\ NoThrow
       \/ /\ \E e \in StorageFaults \cup {OtherFault} : Throw(e)
          /\ UNCHANGED export_file
    /\ UNCHANGED <<op, query_id, locals, description,
                   pending, fs, opened_for_write, cancels, result>>
    /\ Frame

ReadRows ==
    /\ pc = "L316"
    /\ rows' = DictReader(export_file)
    /\ pc' = "L318"
    /\ UNCHANGED <<op, query_id, athena_query_id, athena_output_location,
                   athena_query_results_file, error, json_data, qbytes, columns,
                   export_file, description, exc, exc_at, pending, fs, opened_for_write,
                   cancels, result>>
    /\ Frame

FetchColumns ==
    /\ pc = "L318"
    /\ \E d \in Descriptions :
         /\ description' = d
         /\ columns' = fetch_columns(d)
    /\ pc' = "L320"
    /\ UNCHANGED <<op, query_id, athena_query_id, athena_output_location,
                   athena_query_results_file, error, json_data, qbytes, rows,
                   export_file, exc, exc_at, pending, fs, opened_for_write, cancels, result>>
    /\ Frame

\* lines 320-323: a cursor without data_scanned_in_bytes leaves qbytes None
ReadScannedBytes ==
    /\ pc = "L320"
    /\ \E b \in ScannedBytes : qbytes' = IF b = Absent THEN NoneS ELSE b
    /\ pc' = "L324"
    /\ UNCHANGED <<op, query_id, athena_query_id, athena_output_location,
                   athena_query_results_file, error, json_data, rows, columns,
                   export_file, description, exc, exc_at, pending, fs, opened_for_write,
                   cancels, result>>
    /\ Frame

Payload ==
    [keys |-> {"columns", "rows", "metadata"}, columns |-> columns, rows |-> rows,
     data_scanned |-> qbytes, athena_query_id |-> athena_query_id]

DumpJson ==
    /\ pc = "L324"
    /\ json_data' = json_dumps(Payload)
    /\ ToFinally("none", NoError)
    /\ UNCHANGED <<op, query_id, athena_query_id, athena_output_location,
                   athena_query_results_file, error, qbytes, rows, columns,
                   export_file, description, exc, exc_at, fs, opened_for_write,
                   cancels, result>>
    /\ Frame

TryBody == {"L295", "L300", "L307", "L310", "L311", "L313", "L315", "L316",
            "L318", "L320", "L324"}
AfterDownload == {"L316", "L318", "L320", "L324"}

\* KeyboardInterrupt / InterruptException delivered while a statement of the
\* try block runs
Interrupt ==
    /\ pc \in TryBody
    /\ \E e \in Interrupts : Throw(e)
    /\ UNCHANGED <<op, query_id, locals, export_file, description,
                   pending, fs, opened_for_write, cancels, result>>
    /\ Frame

\* any other exception while reading the file, the description or dumping
Fault ==
    /\ pc \in AfterDownload
    /\ Throw(OtherFault)
    /\ UNCHANGED <<op, query_id, locals, export_file, description,
                   pending, fs, opened_for_write, cancels, result>>
    /\ Frame

CancelledByUser == StrError(<<"Query", "cancelled", "by", "user.">>)
AttributeError == Exc("AttributeError", <<"query_id">>)

\* what cursor.cancel() can raise inside an except clause
CancelFaults == {OtherFault, KeyboardInterrupt}

\* lines 333-337
ExceptInterrupt ==
    /\ pc = "except_interrupt"
    /\ IF query_id = Absent
       THEN /\ ToFinally("exc", AttributeError)
            /\ UNCHANGED <<cancels, error, json_data>>
       ELSE /\ cancels' = IF Truthy(query_id) THEN cancels + 1 ELSE cancels
            /\ \/ /\ error' = CancelledByUser
                  /\ json_data' = NoData
                  /\ ToFinally("none", NoError)
               \/ /\ Truthy(query_id)
                  /\ \E e \in CancelFaults : ToFinally("exc", e)
                  /\ UNCHANGED <<error, json_data>>
    /\ UNCHANGED <<op, query_id, athena_query_id, athena_output_location,
                   athena_query_results_file, qbytes, rows, columns,
                   export_file, description, exc, exc_at, fs, opened_for_write, result>>
    /\ Frame

\* the "not found" test looking for the wrong operation name
IsNotFound_WrongOperation(e) == Contains(e.message, "404") /\ Contains(e.message, "GetObject")

IsNotFound(e) == Contains(e.message, "404") /\ Contains(e.message, "HeadObject")

\* the ClientError clause cancelling the remote query like the other clauses
ExceptClientError_Cancels ==
    /\ pc = "except_ClientError"
    /\ query_id # Absent
    /\ cancels' = IF Truthy(query_id) THEN cancels + 1 ELSE cancels
    /\ IF Contains(exc.message, "404") /\ Contains(exc.message, "HeadObject")
       THEN /\ error' = NoError
            /\ json_data' = json_dumps(EmptyDict)
       ELSE /\ error' = exc
            /\ json_data' = NoData
    /\ pending' = [kind |-> "none", exc |-> NoError]
    /\ pc' = "finally"
    /\ UNCHANGED <<op, query_id, athena_query_id, athena_output_location,
                   athena_query_results_file, qbytes, rows, columns,
                   export_file, description, exc, exc_at, fs, opened_for_write, result>>
    /\ UNCHANGED <<toggles, schema, gs>>

\* lines 338-345
ExceptClientError ==
    /\ pc = "except_ClientError"
    /\ IF IsNotFound(exc)
       THEN /\ error' = NoError
            /\ json_data' = json_dumps(EmptyDict)
       ELSE /\ error' = exc
            /\ json_data' = NoData
    /\ ToFinally("none", NoError)
    /\ UNCHANGED <<op, query_id, athena_query_id, athena_output_location,
                   athena_query_results_file, qbytes, rows, columns,
                   export_file, description, exc, exc_at, fs, opened_for_write,
                   cancels, result>>
    /\ Frame

\* lines 346-351
ExceptException ==
    /\ pc = "except_Exception"
    /\ IF query_id = Absent
       THEN /\ ToFinally("exc", AttributeError)
            /\ UNCHANGED <<cancels, error, json_data>>
       ELSE /\ cancels' = IF Truthy(query_id) THEN cancels + 1 ELSE cancels
            /\ \/ /\ error' = exc
                  /\ json_data' = NoData
                  /\ ToFinally("none", NoError)
               \/ /\ Truthy(query_id)
                  /\ \E e \in CancelFaults : ToFinally("exc", e)
                  /\ UNCHANGED <<error, json_data>>
    /\ UNCHANGED <<op, query_id, athena_query_id, athena_output_location,
                   athena_query_results_file, qbytes, rows, columns,
                   export_file, description, exc, exc_at, fs, opened_for_write, result>>
    /\ Frame

RemoveTypeError == Exc("TypeError", <<"remove:", "path", "should", "be", "string">>)

\* lines 352-353: the finally clause; an exception of remove_file replaces
\* the pending return or exception
Finally ==
    /\ pc = "finally"
    /\ fs' = RemoveFileFs(athena_query_results_file)
    /\ IF RemoveFileRaises(athena_query_results_file)
       THEN Escape(RemoveTypeError)
       ELSE IF pending.kind = "exc" THEN Escape(pending.exc)
       ELSE IF pending.kind = "return"
       THEN result' = Returned(json_data, error) /\ pc' = "done"
       ELSE pc' = "L355" /\ UNCHANGED result
    /\ UNCHANGED <<op, query_id, locals, export_file, description,
                   exc, exc_at, pending, opened_for_write, cancels>>
    /\ Frame

\* lines 355-356
RemoveAndReturn ==
    /\ pc = "L355"
    /\ fs' = RemoveFileFs(athena_query_results_file)
    /\ IF RemoveFileRaises(athena_query_results_file)
       THEN Escape(RemoveTypeError)
       ELSE result' = Returned(json_data, error) /\ pc' = "done"
    /\ UNCHANGED <<op, query_id, locals, export_file, description,
                   exc, exc_at, pending, opened_for_write, cancels>>
    /\ Frame

Next ==
    \/ configuration_schema
    \/ run_query
    \/ Connect
    \/ Execute
    \/ ReadQueryId
    \/ ReadOutputLocation
    \/ CheckOutputLocation
    \/ ParseOutputLocation
    \/ S3Client
    \/ OpenForWrite
    \/ Download
    \/ ReadRows
    \/ FetchColumns
    \/ ReadScannedBytes
    \/ DumpJson
    \/ Interrupt
    \/ Fault
    \/ ExceptInterrupt
    \/ ExceptClientError
    \/ ExceptException
    \/ Finally
    \/ RemoveAndReturn

Spec == Init /\ [][Next]_vars



\* ------------------------------------------------------------ get_schema
\* One call of get_schema with the introspection query (glue flag off).
SchemaNames == {"s1", "s1.t1"}
TableNames == {"t1", "t1.t1"}
ColumnNames == {"c1", "c2"}
IntrospectionHeader == <<"table_schema", "table_name", "column_name">>
IntrospectionLines ==
    SeqsUpTo({<<s, t, c>> : s \in SchemaNames, t \in TableNames, c \in ColumnNames},
             MaxSchemaRows)

\* what run_query(query, None) hands back to get_schema
IntrospectionTable(lines) ==
    json_dumps([keys |-> {"columns", "rows", "metadata"},
                columns |-> fetch_columns(IntrospectionHeader),
                rows |-> DictReader(<<IntrospectionHeader>> \o lines),
                data_scanned |-> NoneS, athena_query_id |-> "q1"])

RunQueryOutcomes ==
    { Raised(DriverFault), Raised(RemoveTypeError),
      Returned(NoData, OtherFault), Returned(NoData, CancelledByUser),
      Returned(json_dumps(EmptyDict), NoError) }
    \cup { Returned(IntrospectionTable(lines), NoError) : lines \in IntrospectionLines }

\* "{0}.{1}".format(table_schema, table_name)
FormatTableName(table_schema, table_name) == table_schema \o "." \o table_name

GetSchemaFrame ==
    UNCHANGED <<toggles, schema, query_id, locals, export_file, description, exc, exc_at,
                pending, fs, opened_for_write, cancels>>

\* line 220
GetSchemaRunQuery ==
    /\ pc = "idle"
    /\ op' = "get_schema"
    /\ \E r \in RunQueryOutcomes : result' = r
    /\ pc' = "L221"
    /\ UNCHANGED gs
    /\ GetSchemaFrame

\* lines 221-224
GetSchemaLoad ==
    /\ pc = "L221"
    /\ IF result.kind = "raised"
       THEN /\ gs_result' = [kind |-> "raised", entries |-> <<>>]
            /\ pc' = "done"
            /\ UNCHANGED <<gs_rows, gs_i>>
       ELSE IF result.error # NoError
       THEN /\ gs_result' = [kind |-> "raised", entries |-> <<>>]
            /\ pc' = "done"
            /\ UNCHANGED <<gs_rows, gs_i>>
       ELSE IF "rows" \notin json_loads(result.data).keys
       THEN /\ gs_result' = [kind |-> "raised", entries |-> <<>>]
            /\ pc' = "done"
            /\ UNCHANGED <<gs_rows, gs_i>>
       ELSE /\ gs_rows' = json_loads(result.data).rows
            /\ gs_i' = 1
            /\ pc' = "L225"
            /\ UNCHANGED gs_result
    /\ UNCHANGED <<op, result, gs_schema, gs_order>>
    /\ GetSchemaFrame

Get(row, key) == row.val[key][1]

\* the dict `schema` after one iteration of the loop of lines 225-229:
\* its keys in insertion order and the columns of each
SchemaKeysAfter(order, row) ==
    LET table_name == FormatTableName(Get(row, "table_schema"), Get(row, "table_name"))
    IN  IF table_name \in Range(order) THEN order ELSE Append(order, table_name)

\* the loop body without the `if table_name not in schema` guard: every row
\* starts the column list of its table again
SchemaColumnsAfter_NoGuard(order, cols, row) ==
    LET table_name == FormatTableName(Get(row, "table_schema"), Get(row, "table_name"))
    IN  [n \in Range(SchemaKeysAfter(order, row)) |->
            IF n = table_name THEN <<Get(row, "column_name")>> ELSE cols[n]]

SchemaColumnsAfter(order, cols, row) ==
    LET table_name == FormatTableName(Get(row, "table_schema"), Get(row, "table_name"))
    IN  [n \in Range(SchemaKeysAfter(order, row)) |->
            IF n = table_name
            THEN Append(IF n \in Range(order) THEN cols[n] ELSE <<>>, Get(row, "column_name"))
            ELSE cols[n]]

\* lines 225-229, one iteration
GetSchemaRow ==
    /\ pc = "L225"
    /\ gs_i <= Len(gs_rows)
    /\ gs_order' = SchemaKeysAfter(gs_order, gs_rows[gs_i])
    /\ gs_schema' = SchemaColumnsAfter(gs_order, gs_schema, gs_rows[gs_i])
    /\ gs_i' = gs_i + 1
    /\ UNCHANGED <<op, pc, result, gs_rows, gs_result>>
    /\ GetSchemaFrame

\* line 231: list(schema.values())
GetSchemaReturn ==
    /\ pc = "L225"
    /\ gs_i > Len(gs_rows)
    /\ gs_result' = [kind |-> "returned",
                     entries |-> [i \in DOMAIN gs_order |->
                                    [name |-> gs_order[i], columns |-> gs_schema[gs_order[i]]]]]
    /\ pc' = "done"
    /\ UNCHANGED <<op, result, gs_rows, gs_i, gs_schema, gs_order>>
    /\ GetSchemaFrame

SchemaNext ==
    \/ GetSchemaRunQuery
    \/ GetSchemaLoad
    \/ GetSchemaRow
    \/ GetSchemaReturn

SchemaSpec == Init /\ [][SchemaNext]_vars


\* ================================================================ claims
RunQueryDone == op = "run_query" /\ pc = "done"
\* the handle has a known query identifier
KnownQueryId == query_id # Absent /\ Truthy(query_id)
IsInterrupt(e) == e.type \in {"KeyboardInterrupt", "InterruptException"}
IsStorageNotFound(e) ==
    /\ e.type = "ClientError"
    /\ \E i \in DOMAIN e.message : e.message[i] = "404"
    /\ \E i \in DOMAIN e.message : e.message[i] = "HeadObject"

C2_EmptyLocationReturnsNoneNone ==
    (RunQueryDone /\ pending.kind = "return") => result = Returned(NoData, NoError)

\* C3: an interrupt during retrieval with a known query identifier is answered
\* by exactly one cursor.cancel() (which itself completes) and run_query
\* returns (None, "Query cancelled by user.").
C3_InterruptCancelsOnceAndReturns ==
    (RunQueryDone /\ IsInterrupt(exc) /\ KnownQueryId /\ pending.kind # "exc")
        => (cancels = 1 /\ result = Returned(NoData, CancelledByUser))

\* C4: a storage "not found" fault raised by the download makes run_query
\* return (json of the empty payload, None) without any remote cancellation.
C4_NotFoundIsEmptySuccess ==
    (RunQueryDone /\ exc_at = "L315" /\ IsStorageNotFound(exc))
        => (result = Returned(json_dumps(EmptyDict), NoError) /\ cancels = 0)

C4_Witness ==
    /\ RunQueryDone
    /\ exc_at = "L315"
    /\ IsStorageNotFound(exc)
    /\ KnownQueryId
    /\ result.kind = "returned"

\* C5: no exception escapes run_query: every call ends by returning a pair.
C5_NothingEscapesRunQuery ==
    RunQueryDone => result.kind = "returned"

\* C6, for the faults raised once the export file exists (download and
\* later): a fault that is neither an interrupt nor a storage "not found" is
\* followed by cursor.cancel() when the query identifier is known, by no
\* cancellation otherwise, and the call returns (None, that fault).
C6_FaultCancelsAndReturnsError ==
    (RunQueryDone /\ exc_at \in ({"L315"} \cup AfterDownload)
         /\ ~IsInterrupt(exc) /\ ~IsStorageNotFound(exc) /\ pending.kind # "exc")
        => /\ KnownQueryId => cancels >= 1
           /\ ~KnownQueryId => cancels = 0
           /\ result = Returned(NoData, exc)

\* C7: configuration_schema() under every combination of the toggles.
C7_ConfigurationSchemaKeys ==
    (op = "configuration_schema" /\ pc = "done") =>
        LET keys == {"aws_access_key", "aws_secret_key"}
            required == {schema.required[i] : i \in DOMAIN schema.required}
            order == {schema.order[i] : i \in DOMAIN schema.order}
            secret == {schema.secret[i] : i \in DOMAIN schema.secret}
        IN  /\ ASSUME_ROLE =>
                /\ keys \cap schema.properties = {}
                /\ keys \cap order = {}
                /\ keys \cap required = {}
                /\ schema.secret = <<>>
            /\ ~ASSUME_ROLE =>
                /\ keys \subseteq schema.properties
                /\ "aws_secret_key" \in secret
                /\ (keys \subseteq required) <=> ~OPTIONAL_CREDENTIALS
                /\ (keys \cap required = {}) <=> OPTIONAL_CREDENTIALS

C7_Witness ==
    /\ op = "configuration_schema"
    /\ pc = "done"
    /\ ASSUME_ROLE
    /\ ~OPTIONAL_CREDENTIALS
    /\ "iam_role" \in schema.properties

\* C8, for an export file whose header carries the names of the description:
\* a header and N data rows over K columns, with a description of K columns,
\* give N row objects whose keys are the names of the K column descriptors,
\* in order.
C8_RowKeysAreColumnNames ==
    LET K == Len(description)
        table == json_data.value
    IN  ( /\ op = "run_query"
          /\ json_data.kind = "json"
          /\ "rows" \in table.keys
          /\ export_file # <<>>
          /\ K >= 1
          /\ export_file[1] = description
          /\ \A i \in DOMAIN export_file : Len(export_file[i]) = K )
        => /\ Len(table.rows) = Len(export_file) - 1
           /\ Len(table.columns) = K
           /\ \A r \in DOMAIN table.rows :
                 /\ Len(table.rows[r].keys) = K
                 /\ \A c \in 1..K : table.rows[r].keys[c] = table.columns[c].name

\* C9: get_schema returns one entry per distinct "schema.table" name, whose
\* columns are the column_name values of the rows of that table in first-seen
\* order; a non-null error of run_query makes get_schema raise.
RECURSIVE ColumnsOf(_, _, _)
ColumnsOf(name, rs, i) ==
    IF i > Len(rs) THEN <<>>
    ELSE (IF rs[i].val["table_schema"][1] \o "." \o rs[i].val["table_name"][1] = name
          THEN <<rs[i].val["column_name"][1]>> ELSE <<>>)
         \o ColumnsOf(name, rs, i + 1)

C9_SchemaGroupsRowsByTable ==
    (op = "get_schema" /\ pc = "done") =>
        /\ (result.kind = "returned" /\ result.error # NoError) => gs_result.kind = "raised"
        /\ gs_result.kind = "returned" =>
            LET entries == gs_result.entries
                rs == json_loads(result.data).rows
                names == {rs[i].val["table_schema"][1] \o "." \o rs[i].val["table_name"][1] :
                            i \in DOMAIN rs}
            IN  /\ {entries[i].name : i \in DOMAIN entries} = names
                /\ Len(entries) = Cardinality(names)
                /\ \A i \in DOMAIN entries :
                      entries[i].columns = ColumnsOf(entries[i].name, rs, 1)

\* two rows (s1,t1,c1),(s1,t1,c2) grouped into one entry s1.t1 with [c1, c2]
C9_Witness ==
    /\ op = "get_schema"
    /\ pc = "done"
    /\ gs_result.kind = "returned"
    /\ Len(gs_rows) = 2
    /\ gs_result.entries = <<[name |-> "s1.t1", columns |-> <<"c1", "c2">>]>>

\* C10: cursor.cancel() is called at most once in an invocation, never in one
\* that returns a null error; a cancellation followed by a return means a
\* non-null error and no data.
C10_CancelImpliesError ==
    /\ cancels <= 1
    /\ (RunQueryDone /\ result.kind = "returned" /\ result.error = NoError) => cancels = 0
    /\ (RunQueryDone /\ result.kind = "returned" /\ cancels > 0)
          => (result.error # NoError /\ result.data = NoData)

C10_Witness ==
    /\ RunQueryDone
    /\ result.kind = "returned"
    /\ cancels = 1
    /\ exc = OtherFault

====
